---- MODULE Spec2Model ----
(***************************************************************************)
(* Model of the turn orchestrator threadInfer (src/lib/thread/index.ts).   *)
(* A turn is a linear chain of awaits; every action below is the           *)
(* settlement of one await together with the synchronous code that runs    *)
(* up to the next await (or up to the return / the catch block).           *)
(* Several turns run concurrently; they share only the external store.     *)
(*                                                                         *)
(* JS values: an optional value (undefined / null / absent row) is the     *)
(* empty sequence <<>> and a present value v is <<v>>; the optional        *)
(* string agentName uses the sentinel Undefined.                           *)
(***************************************************************************)
EXTENDS Integers, Sequences, FiniteSets, TLC

\* ---------------------------------------------------------------- bounds
MaxPrior == 11
MaxDeliver == 2
MaxResults == 2

\* ------------------------------------------------------- program constants
PriorWindow == 9
ContextLimit == 10

\* Two callers invoke threadInfer concurrently.
Turns == {1, 2}

Undefined == "<undefined>"

Some(v) == <<v>>

None == <<>>

\* ------------------------------------------------------------ JS helpers
\* Array.prototype.slice(-n), n > 0: the last n elements, all if shorter.
SliceLast(s, n) ==
    IF Len(s) <= n THEN s ELSE SubSeq(s, Len(s) - n + 1, Len(s))

\* Variant: only undefined counts as absent (agentName !== undefined).
TruthyUnlessUndefined(s) == s # Undefined

\* Truthiness of an optional string: undefined and "" are falsy.
Truthy(s) == s # Undefined /\ s # ""

\* ------------------------------------------------- the external store
\* Rows of the agent table (read-only configuration).
Agents ==
    { [id |-> "a1", name |-> "alice", prompt |-> <<"prompt", 0, 1>>,
       primaryModel |-> "m1", knowledgeBases |-> None],
      [id |-> "a2", name |-> "bob", prompt |-> <<"prompt", 0, 2>>,
       primaryModel |-> "m2", knowledgeBases |-> Some(<<[name |-> "docs"]>>)],
      [id |-> "a3", name |-> "carol", prompt |-> <<"prompt", 0, 3>>,
       primaryModel |-> "m1",
       knowledgeBases |-> Some(<<[name |-> "docs"], [name |-> "docs"]>>)] }

\* Declared tool records per agent id.  A tool name is the sequence of the
\* parts it is concatenated from; a3 declares a tool under the name of its
\* knowledge tools.
AgentToolRows(id) ==
    CASE id = "a2" -> <<[name |-> <<"calc">>]>>
      [] id = "a3" -> <<[name |-> <<"search-knowledge-base-", "docs">>]>>
      [] OTHER     -> <<>>

\* Thread rows: T1 defaults to a1, T2 has no default, T3 names a default
\* agent that has no row.  Any other id names no thread.
ThreadIds == {"T1", "T2", "T3"}

ThreadRow(id) ==
    CASE id = "T1" -> [default_agent_id |-> "a1"]
      [] id = "T2" -> [default_agent_id |-> Undefined]
      [] OTHER     -> [default_agent_id |-> "a9"]

getThreadDetailsById(id) ==
    IF id \in ThreadIds THEN Some(ThreadRow(id)) ELSE None

getAgentByName(name) ==
    IF \E a \in Agents : a.name = name
    THEN Some(CHOOSE a \in Agents : a.name = name)
    ELSE None

getAgentById(id) ==
    IF \E a \in Agents : a.id = id
    THEN Some(CHOOSE a \in Agents : a.id = id)
    ELSE None

\* The store's append: the new messages go after the stored ones.
addMessagesToThread(stored, messages) == stored \o messages

\* ------------------------------------------------------------ messages
HistoryMessage(i) ==
    [role |-> IF i % 2 = 1 THEN "user" ELSE "assistant",
     content |-> <<"hist", 0, i>>]

History(n) == [i \in 1..n |-> HistoryMessage(i)]

\* The caller's new user message of turn p.
UserMessages(p) == { [role |-> "user", content |-> <<"user", p, 0>>] }

\* The k-th message the engine produces during turn p: tool traffic, then
\* an assistant message, alternating.
EngineMessages(p, k) ==
    { [role |-> IF k % 2 = 1 THEN "tool" ELSE "assistant",
       content |-> <<"out", p, k>>] }

\* The engine's final output message of turn p.
OutputMessages(p) == { [role |-> "assistant", content |-> <<"final", p, 0>>] }

\* Inputs of a turn.
ThreadIdInputs == ThreadIds \cup {"T0"}

AgentNameInputs == {Undefined, "", "bob", "carol", "ghost"}

\* -------------------------------------------------------------- errors
ThreadNotFound == <<"Thread not found">>

AgentNotFound(name) == <<"Agent \"", name, "\" not found">>

DefaultAgentNotFound == <<"Default agent not found">>

NoAgentError ==
    <<"No agent specified and no default agent set for the thread">>

\* The rejection of the awaited collaborator call fn.
Rejection(fn) == <<"rejected", fn>>

\* ------------------------------------------- decisions of the orchestrator
CallNext(fn) == [kind |-> "call", fn |-> fn, error |-> None]

ThrowError(e) == [kind |-> "throw", fn |-> "", error |-> Some(e)]

ReturnResult == [kind |-> "return", fn |-> "", error |-> None]

\* ------------------------------------------------ code of threadInfer
\* Variant: a missing thread row is read as a thread without default agent.
AfterThreadDetailsUnchecked(details, name) ==
    IF Truthy(name) THEN CallNext("getAgentByName")
    ELSE IF details # None /\ Truthy(details[1].default_agent_id)
         THEN CallNext("getAgentById")
    ELSE ThrowError(NoAgentError)

\* Variant: the thread's default agent is tried before the explicit name.
AfterThreadDetailsDefaultFirst(details, name) ==
    IF details = None THEN ThrowError(ThreadNotFound)
    ELSE IF Truthy(details[1].default_agent_id) THEN CallNext("getAgentById")
    ELSE IF Truthy(name) THEN CallNext("getAgentByName")
    ELSE ThrowError(NoAgentError)

\* Variant: without a name the default agent is looked up even if unset.
AfterThreadDetailsNoElse(details, name) ==
    IF details = None THEN ThrowError(ThreadNotFound)
    ELSE IF Truthy(name) THEN CallNext("getAgentByName")
    ELSE CallNext("getAgentById")

\* Lines 34-53: what follows the thread fetch.
AfterThreadDetails(details, name) ==
    IF details = None THEN ThrowError(ThreadNotFound)
    ELSE IF Truthy(name) THEN CallNext("getAgentByName")
    ELSE IF Truthy(details[1].default_agent_id) THEN CallNext("getAgentById")
    ELSE ThrowError(NoAgentError)

\* Variant: an unknown name falls back to the thread's default agent.
AfterAgentByNameFallback(found, name) ==
    IF found = None THEN CallNext("getAgentById")
    ELSE CallNext("getMessagesByThreadId")

\* Lines 40-43: what follows the lookup by name.
AfterAgentByName(found, name) ==
    IF found = None THEN ThrowError(AgentNotFound(name))
    ELSE CallNext("getMessagesByThreadId")

\* Lines 45-48: what follows the lookup of the default agent.
AfterAgentById(found) ==
    IF found = None THEN ThrowError(DefaultAgentNotFound)
    ELSE CallNext("getMessagesByThreadId")

\* Lines 56-59.
SystemMessage(a) == [role |-> "system", content |-> a.prompt]

\* Variant: the assembled list is cut to one entry fewer.
ContextWindowNine(systemMessage, previous, new) ==
    SliceLast(<<systemMessage>> \o SliceLast(previous, PriorWindow) \o <<new>>,
              ContextLimit - 1)

\* Variant: slice(0, 9) keeps the oldest prior messages.
ContextWindowOldest(systemMessage, previous, new) ==
    SliceLast(<<systemMessage>>
                \o SubSeq(previous, 1,
                          IF Len(previous) < PriorWindow
                          THEN Len(previous) ELSE PriorWindow)
                \o <<new>>,
              ContextLimit)

\* Variant: one prior message fewer is kept by the first cut.
ContextWindowEight(systemMessage, previous, new) ==
    SliceLast(<<systemMessage>> \o SliceLast(previous, PriorWindow - 1)
                \o <<new>>,
              ContextLimit)

\* Variant: the assembled list is cut to one entry more.
ContextWindowEleven(systemMessage, previous, new) ==
    SliceLast(<<systemMessage>> \o SliceLast(previous, PriorWindow) \o <<new>>,
              ContextLimit + 1)

\* Lines 61-65.
ContextWindow(systemMessage, previous, new) ==
    SliceLast(<<systemMessage>> \o SliceLast(previous, PriorWindow) \o <<new>>,
              ContextLimit)

\* Line 66.
InitialNewMessages(new) == <<new>>

\* Lines 68-70.
onMessage(messages, message) == Append(messages, message)

\* Lines 110-113: the tool wrapping one knowledge base.
knowledgeBaseTool(kb) ==
    [kind |-> "knowledge", name |-> <<"search-knowledge-base-">> \o <<kb.name>>]

\* The callable tool of a declared tool record (./tool).
createToolFromDb(t) == [kind |-> "declared", name |-> t.name]

\* Lines 72-74: agent.knowledgeBases || [] mapped to tools.
KbTools(a) ==
    LET knowledgeBases ==
            IF a.knowledgeBases = None THEN <<>> ELSE a.knowledgeBases[1]
    IN  [i \in 1..Len(knowledgeBases) |-> knowledgeBaseTool(knowledgeBases[i])]

\* The tools of ts whose name no earlier tool of ts has.
FirstOfEachName(ts) ==
    LET first == { i \in 1..Len(ts) :
                     \A j \in 1..(i - 1) : ts[j].name # ts[i].name }
    IN  [k \in 1..Cardinality(first) |->
            ts[CHOOSE i \in first :
                  Cardinality({ j \in first : j < i }) = k - 1]]

\* Variant: tools are deduplicated by name.
BuildToolsDeduplicated(a, dbtools) ==
    FirstOfEachName(
        [i \in 1..Len(dbtools) |-> createToolFromDb(dbtools[i])] \o KbTools(a))

\* Lines 80-82.
BuildTools(a, dbtools) ==
    [i \in 1..Len(dbtools) |-> createToolFromDb(dbtools[i])] \o KbTools(a)

\* Variant: the list is passed even when empty.
ToolsArgumentAlways(ts) == Some(ts)

\* Line 87: tools.length > 0 ? tools : undefined.
ToolsArgument(ts) == IF Len(ts) > 0 THEN Some(ts) ELSE None

\* Lines 84-89: the argument of universalInfer.
InferArguments(a, context, ts) ==
    [model |-> a.primaryModel, messages |-> context, tools |-> ToolsArgument(ts)]

\* Variant: the head of the context (the system message) is saved too.
PersistedWithSystem(new, context) == <<context[1]>> \o new

\* Variant: the result is returned without saving the turn's messages.
AfterInferenceNoSave(output) == ReturnResult

\* Lines 84-92: what follows the inference call.
AfterInference(output) == CallNext("addMessagesToThread")

\* Line 92: the list handed to addMessagesToThread.
PersistedMessages(new, context) == new

\* Variant: a failed save is swallowed and the result returned.
OnRejectSwallowSave(fn, e) ==
    IF fn = "addMessagesToThread" THEN ReturnResult ELSE ThrowError(e)

\* Variant: a failed inference call does not stop the save.
OnRejectSaveAnyway(fn, e) ==
    IF fn = "universalInfer" THEN CallNext("addMessagesToThread")
    ELSE ThrowError(e)

\* Lines 31, 98: a rejected await leaves the try block.
OnReject(fn, e) == ThrowError(e)

\* Lines 98-102: the catch block rethrows what it caught.
Rethrow(e) == e

\* ----------------------------------------------------------------- state
VARIABLES
    log,               \* the store: message log of every thread
    pc,                \* per turn: idle, the awaited call, returned, thrown
    threadId, agentName, newMessage,          \* arguments of the turn
    threadDetails, agent, previousMessages,   \* locals of the turn
    contextMessages, newMessages, tools, result,
    inferArgs,         \* the argument universalInfer was called with
    calls,             \* collaborator calls the turn has made, in order
    delivered,         \* messages the engine passed to onMessage, in order
    failed,            \* the collaborator call that rejected, if any
    raised,            \* the error thrown inside the try block
    error,             \* the error the caller's promise rejects with
    returned           \* the value the caller's promise resolves with

locals == <<threadDetails, agent, previousMessages, contextMessages,
            newMessages, tools, result, inferArgs, delivered>>

args == <<threadId, agentName, newMessage>>

outcome == <<raised, error, returned>>

turnVars == <<log, pc, args, locals, calls, failed, outcome>>

\* One invocation of a knowledge tool by the engine.
VARIABLES
    toolPc,            \* idle, parsed, searchKnowledgeBase, returned, thrown
    kb,                \* the knowledge base the tool was built for
    rawParams,         \* the payload the engine passes to parse
    params,            \* what parse returned, the argument of function
    searchCalls,       \* calls of searchKnowledgeBase, in order
    searchResults,     \* what searchKnowledgeBase answered
    toolOutput,        \* the string function resolved with
    toolError          \* the error parse or function threw

toolVars == <<toolPc, kb, rawParams, params, searchCalls, searchResults,
              toolOutput, toolError>>

vars == <<turnVars, toolVars>>

AwaitedCalls ==
    {"getThreadDetailsById", "getAgentByName", "getAgentById",
     "getMessagesByThreadId", "getAgentTools", "universalInfer",
     "addMessagesToThread"}

\* No tool has been invoked.
ToolIdle ==
    /\ toolPc = "idle"
    /\ kb = None
    /\ rawParams = None
    /\ params = None
    /\ searchCalls = <<>>
    /\ searchResults = None
    /\ toolOutput = None
    /\ toolError = None

Init ==
    /\ \E n \in 0..MaxPrior :
          log = [t \in ThreadIds |-> IF t = "T1" THEN History(n) ELSE <<>>]
    /\ ToolIdle
    /\ pc = [p \in Turns |-> "idle"]
    /\ threadId = [p \in Turns |-> ""]
    /\ agentName = [p \in Turns |-> Undefined]
    /\ newMessage = [p \in Turns |-> None]
    /\ threadDetails = [p \in Turns |-> None]
    /\ agent = [p \in Turns |-> None]
    /\ previousMessages = [p \in Turns |-> <<>>]
    /\ contextMessages = [p \in Turns |-> <<>>]
    /\ newMessages = [p \in Turns |-> <<>>]
    /\ tools = [p \in Turns |-> <<>>]
    /\ result = [p \in Turns |-> None]
    /\ inferArgs = [p \in Turns |-> None]
    /\ calls = [p \in Turns |-> <<>>]
    /\ delivered = [p \in Turns |-> <<>>]
    /\ failed = [p \in Turns |-> None]
    /\ raised = [p \in Turns |-> None]
    /\ error = [p \in Turns |-> None]
    /\ returned = [p \in Turns |-> None]

\* Carry out a decision of turn p: make the next call, leave through the
\* catch block, or return the result.
Proceed(p, d) ==
    /\ pc' = [pc EXCEPT ![p] =
                 CASE d.kind = "call"  -> d.fn
                   [] d.kind = "throw" -> "thrown"
                   [] OTHER            -> "returned"]
    /\ calls' = IF d.kind = "call"
                THEN [calls EXCEPT ![p] = Append(@, d.fn)] ELSE calls
    /\ raised' = IF d.kind = "throw"
                 THEN [raised EXCEPT ![p] = d.error] ELSE raised
    /\ error' = IF d.kind = "throw"
                THEN [error EXCEPT ![p] = Some(Rethrow(d.error[1]))] ELSE error
    /\ returned' = IF d.kind = "return"
                   THEN [returned EXCEPT ![p] = result[p]] ELSE returned

\* Lines 20-33: the caller invokes threadInfer.
Start(p) ==
    /\ pc[p] = "idle"
    /\ \E t \in ThreadIdInputs, n \in AgentNameInputs, m \in UserMessages(p) :
          /\ threadId' = [threadId EXCEPT ![p] = t]
          /\ agentName' = [agentName EXCEPT ![p] = n]
          /\ newMessage' = [newMessage EXCEPT ![p] = Some(m)]
    /\ Proceed(p, CallNext("getThreadDetailsById"))
    /\ UNCHANGED <<log, locals, failed>>
    /\ UNCHANGED toolVars

\* Lines 33-53: getThreadDetailsById has answered.
ThreadDetailsResolved(p) ==
    /\ pc[p] = "getThreadDetailsById"
    /\ LET details == getThreadDetailsById(threadId[p]) IN
          /\ threadDetails' = [threadDetails EXCEPT ![p] = details]
          /\ Proceed(p, AfterThreadDetails(details, agentName[p]))
    /\ UNCHANGED <<log, args, agent, previousMessages, contextMessages,
                   newMessages, tools, result, inferArgs, delivered, failed>>
    /\ UNCHANGED toolVars

\* Lines 40-43, 60: getAgentByName has answered.
AgentByNameResolved(p) ==
    /\ pc[p] = "getAgentByName"
    /\ LET found == getAgentByName(agentName[p]) IN
          /\ agent' = [agent EXCEPT ![p] = found]
          /\ Proceed(p, AfterAgentByName(found, agentName[p]))
    /\ UNCHANGED <<log, args, threadDetails, previousMessages, contextMessages,
                   newMessages, tools, result, inferArgs, delivered, failed>>
    /\ UNCHANGED toolVars

\* Lines 45-48, 60: getAgentById has answered.
AgentByIdResolved(p) ==
    /\ pc[p] = "getAgentById"
    /\ LET found == getAgentById(threadDetails[p][1].default_agent_id) IN
          /\ agent' = [agent EXCEPT ![p] = found]
          /\ Proceed(p, AfterAgentById(found))
    /\ UNCHANGED <<log, args, threadDetails, previousMessages, contextMessages,
                   newMessages, tools, result, inferArgs, delivered, failed>>
    /\ UNCHANGED toolVars

\* Lines 60-78: getMessagesByThreadId has answered.
MessagesResolved(p) ==
    /\ pc[p] = "getMessagesByThreadId"
    /\ LET previous == IF threadId[p] \in DOMAIN log
                       THEN log[threadId[p]] ELSE <<>> IN
          /\ previousMessages' = [previousMessages EXCEPT ![p] = previous]
          /\ contextMessages' = [contextMessages EXCEPT ![p] =
                ContextWindow(SystemMessage(agent[p][1]), previous,
                              newMessage[p][1])]
    /\ newMessages' = [newMessages EXCEPT ![p] =
                          InitialNewMessages(newMessage[p][1])]
    /\ Proceed(p, CallNext("getAgentTools"))
    /\ UNCHANGED <<log, args, threadDetails, agent, tools, result, inferArgs,
                   delivered, failed>>
    /\ UNCHANGED toolVars

\* Lines 78-89: getAgentTools has answered; universalInfer is called.
AgentToolsResolved(p) ==
    /\ pc[p] = "getAgentTools"
    /\ LET ts == BuildTools(agent[p][1], AgentToolRows(agent[p][1].id)) IN
          /\ tools' = [tools EXCEPT ![p] = ts]
          /\ inferArgs' = [inferArgs EXCEPT ![p] =
                Some(InferArguments(agent[p][1], contextMessages[p], ts))]
    /\ Proceed(p, CallNext("universalInfer"))
    /\ UNCHANGED <<log, args, threadDetails, agent, previousMessages,
                   contextMessages, newMessages, result, delivered, failed>>
    /\ UNCHANGED toolVars

\* Variant: newMessages is one array shared by all turns.
EngineDeliversShared(p) ==
    /\ pc[p] = "universalInfer"
    /\ Len(delivered[p]) < MaxDeliver
    /\ \E m \in EngineMessages(p, Len(delivered[p]) + 1) :
          /\ newMessages' = [q \in Turns |-> onMessage(newMessages[q], m)]
          /\ delivered' = [delivered EXCEPT ![p] = Append(@, m)]
    /\ UNCHANGED <<log, pc, args, threadDetails, agent, previousMessages,
                   contextMessages, tools, result, inferArgs, calls, failed,
                   outcome>>
    /\ UNCHANGED toolVars

\* Variant: onMessage also saves each message as it arrives.
EngineDeliversAndSaves(p) ==
    /\ pc[p] = "universalInfer"
    /\ Len(delivered[p]) < MaxDeliver
    /\ \E m \in EngineMessages(p, Len(delivered[p]) + 1) :
          /\ newMessages' = [newMessages EXCEPT ![p] = onMessage(@, m)]
          /\ delivered' = [delivered EXCEPT ![p] = Append(@, m)]
          /\ log' = [log EXCEPT ![threadId[p]] = addMessagesToThread(@, <<m>>)]
    /\ UNCHANGED <<pc, args, threadDetails, agent, previousMessages,
                   contextMessages, tools, result, inferArgs, calls, failed,
                   outcome>>
    /\ UNCHANGED toolVars

\* Lines 68-70: the running engine delivers a message through onMessage.
EngineDelivers(p) ==
    /\ pc[p] = "universalInfer"
    /\ Len(delivered[p]) < MaxDeliver
    /\ \E m \in EngineMessages(p, Len(delivered[p]) + 1) :
          /\ newMessages' = [newMessages EXCEPT ![p] = onMessage(@, m)]
          /\ delivered' = [delivered EXCEPT ![p] = Append(@, m)]
    /\ UNCHANGED <<log, pc, args, threadDetails, agent, previousMessages,
                   contextMessages, tools, result, inferArgs, calls, failed,
                   outcome>>
    /\ UNCHANGED toolVars

\* Lines 84-92: universalInfer has answered; addMessagesToThread is called.
InferResolved(p) ==
    /\ pc[p] = "universalInfer"
    /\ \E r \in OutputMessages(p) :
          /\ result' = [result EXCEPT ![p] = Some(r)]
          /\ Proceed(p, AfterInference(r))
    /\ UNCHANGED <<log, args, threadDetails, agent, previousMessages,
                   contextMessages, newMessages, tools, inferArgs, delivered,
                   failed>>
    /\ UNCHANGED toolVars

\* Variant: the thread is rewritten to the context window plus the
\* engine's messages instead of being appended to.
AddMessagesResolvedOverwrite(p) ==
    /\ pc[p] = "addMessagesToThread"
    /\ log' = [log EXCEPT ![threadId[p]] = contextMessages[p] \o delivered[p]]
    /\ Proceed(p, ReturnResult)
    /\ UNCHANGED <<args, locals, failed>>
    /\ UNCHANGED toolVars

\* Lines 92-97: the store has appended; the result is returned.
AddMessagesResolved(p) ==
    /\ pc[p] = "addMessagesToThread"
    /\ log' = [log EXCEPT ![threadId[p]] =
                  addMessagesToThread(@,
                      PersistedMessages(newMessages[p], contextMessages[p]))]
    /\ Proceed(p, ReturnResult)
    /\ UNCHANGED <<args, locals, failed>>
    /\ UNCHANGED toolVars

\* Lines 98-102: the awaited collaborator call fails.
Rejected(p) ==
    /\ pc[p] \in AwaitedCalls
    /\ failed' = [failed EXCEPT ![p] = Some(pc[p])]
    /\ Proceed(p, OnReject(pc[p], Rejection(pc[p])))
    /\ UNCHANGED <<log, args, locals>>
    /\ UNCHANGED toolVars

Next ==
    \E p \in Turns :
        \/ Start(p)
        \/ ThreadDetailsResolved(p)
        \/ AgentByNameResolved(p)
        \/ AgentByIdResolved(p)
        \/ MessagesResolved(p)
        \/ AgentToolsResolved(p)
        \/ EngineDelivers(p)
        \/ InferResolved(p)
        \/ AddMessagesResolved(p)
        \/ Rejected(p)

Spec == Init /\ [][Next]_vars

\* ------------------------------------------- the knowledge tool (105-143)
\* A JSON value: its type, and its number or its text.
Str(x) == [t |-> "string", n |-> 0, s |-> x]

Num(x) == [t |-> "number", n |-> x, s |-> ""]

Null == [t |-> "null", n |-> 0, s |-> ""]

\* A key the object does not have reads as undefined.
Absent == [t |-> "undefined", n |-> 0, s |-> ""]

QueryInputs == {Absent, Str("q"), Num(7)}

KInputs == {Absent, Num(1), Num(5), Str("3"), Null}

\* What the engine may pass to parse: an object, the JSON text of an
\* object, the JSON text of a scalar, or text that is not JSON.
RawParamsInputs ==
    { [form |-> f, text |-> "object", object |-> [query |-> q, k |-> k]] :
          f \in {"string", "object"}, q \in QueryInputs, k \in KInputs }
    \cup
    { [form |-> "string", text |-> x, object |-> [query |-> Absent, k |-> Absent]] :
          x \in {"malformed", "scalar"} }

KnowledgeBaseInputs == { [name |-> "docs"], [name |-> "faq"] }

\* Results the search collaborator may return (types.ts, SearchResult).
SearchResultInputs ==
    { [id |-> Some("d1"), content |-> Some("c1"), model |-> Some("e1"),
       metadata |-> Some("meta1"), similarity |-> Some("0.9")],
      [id |-> Some("d2"), content |-> Some("c2"), model |-> Some("e1"),
       metadata |-> None, similarity |-> Some("0.5")] }

SearchResultSeqs ==
    UNION { [1..n -> SearchResultInputs] : n \in 0..MaxResults }

\* An outcome of parsing: a value or a thrown error.
Ok(v) == [ok |-> TRUE, value |-> v, error |-> None]

Thrown(e) == [ok |-> FALSE, value |-> [query |-> Absent, k |-> Absent],
              error |-> Some(e)]

\* Line 134: typeof params === "string" ? JSON.parse(params) : params.
\* A scalar parses to a value that is no object.
JsonParse(raw) ==
    IF raw.form = "string" /\ raw.text = "malformed"
    THEN Thrown(<<"SyntaxError">>)
    ELSE Ok([isObject |-> raw.text = "object", fields |-> raw.object])

\* Variant: k has no default and an absent k is passed on.
ParamsSchemaParseNoDefault(v) ==
    IF ~v.isObject THEN Thrown(<<"ZodError", "params">>)
    ELSE IF v.fields.query.t # "string" THEN Thrown(<<"ZodError", "query">>)
    ELSE IF v.fields.k.t \notin {"number", "undefined"}
         THEN Thrown(<<"ZodError", "k">>)
    ELSE Ok([query |-> v.fields.query, k |-> v.fields.k])

\* Lines 105-108, 135: paramsSchema.parse.
ParamsSchemaParse(v) ==
    IF ~v.isObject THEN Thrown(<<"ZodError", "params">>)
    ELSE IF v.fields.query.t # "string" THEN Thrown(<<"ZodError", "query">>)
    ELSE IF v.fields.k.t = "undefined"
         THEN Ok([query |-> v.fields.query, k |-> Num(2)])
    ELSE IF v.fields.k.t # "number" THEN Thrown(<<"ZodError", "k">>)
    ELSE Ok([query |-> v.fields.query, k |-> v.fields.k])

\* Lines 132-138: the tool's parse.
Parse(raw) ==
    LET parsed == JsonParse(raw)
    IN  IF parsed.ok THEN ParamsSchemaParse(parsed.value) ELSE parsed

\* Lines 117-121: the arguments of searchKnowledgeBase.
SearchArguments(base, valid) ==
    [kbName |-> base.name, query |-> valid.query, k |-> valid.k]

\* Variant: the whole result is passed on.
ProjectAll(r) ==
    <<<<"id", r.id>>, <<"content", r.content>>, <<"model", r.model>>,
      <<"metadata", r.metadata>>, <<"similarity", r.similarity>>>>

\* Lines 122-125: an object is the sequence of its keys with their values.
Project(r) == <<<<"content", r.content>>, <<"metadata", r.metadata>>>>

\* JSON.stringify of an object: keys with an undefined value are left out.
StringifyObject(o) ==
    LET defined == { i \in 1..Len(o) : o[i][2] # None }
    IN  [j \in 1..Cardinality(defined) |->
            o[CHOOSE i \in defined :
                 Cardinality({ h \in defined : h < i }) = j - 1]]

\* Lines 122-126: JSON.stringify(results.map(...)).
ToolOutput(results) ==
    [i \in 1..Len(results) |-> StringifyObject(Project(results[i]))]

\* The engine invokes the tool of knowledge base b: parse runs (132-138).
ToolParses ==
    /\ toolPc = "idle"
    /\ \E b \in KnowledgeBaseInputs, raw \in RawParamsInputs :
          /\ kb' = Some(b)
          /\ rawParams' = Some(raw)
          /\ LET valid == Parse(raw) IN
                IF valid.ok
                THEN /\ params' = Some(valid.value)
                     /\ toolPc' = "parsed"
                     /\ UNCHANGED toolError
                ELSE /\ toolError' = valid.error
                     /\ toolPc' = "thrown"
                     /\ UNCHANGED params
    /\ UNCHANGED <<searchCalls, searchResults, toolOutput>>
    /\ UNCHANGED turnVars

\* Lines 114-121: function is called with what parse returned.
ToolSearches ==
    /\ toolPc = "parsed"
    /\ searchCalls' = Append(searchCalls, SearchArguments(kb[1], params[1]))
    /\ toolPc' = "searchKnowledgeBase"
    /\ UNCHANGED <<kb, rawParams, params, searchResults, toolOutput, toolError>>
    /\ UNCHANGED turnVars

\* Lines 117-126: searchKnowledgeBase has answered.
SearchResolved ==
    /\ toolPc = "searchKnowledgeBase"
    /\ \E results \in SearchResultSeqs :
          /\ searchResults' = Some(results)
          /\ toolOutput' = Some(ToolOutput(results))
    /\ toolPc' = "returned"
    /\ UNCHANGED <<kb, rawParams, params, searchCalls, toolError>>
    /\ UNCHANGED turnVars

\* Lines 127-130: searchKnowledgeBase has failed; the error is rethrown.
SearchRejected ==
    /\ toolPc = "searchKnowledgeBase"
    /\ toolError' = Some(Rejection("searchKnowledgeBase"))
    /\ toolPc' = "thrown"
    /\ UNCHANGED <<kb, rawParams, params, searchCalls, searchResults,
                   toolOutput>>
    /\ UNCHANGED turnVars

ToolInit ==
    /\ Init
    /\ log = [t \in ThreadIds |-> <<>>]

ToolNext ==
    \/ ToolParses
    \/ ToolSearches
    \/ SearchResolved
    \/ SearchRejected

ToolSpec == ToolInit /\ [][ToolNext]_vars

\* ------------------------------------------------------------ properties
Range(s) == { s[i] : i \in 1..Len(s) }

IsPrefix(s, t) == Len(s) <= Len(t) /\ SubSeq(t, 1, Len(s)) = s

\* Turn p has made its inference call.
Inferred(p) == inferArgs[p] # None

\* No stored message stems from turn p.
NoTraceInLog(p) ==
    \A t \in ThreadIds : \A i \in 1..Len(log[t]) : log[t][i].content[2] # p

\* C1: a step that completes a turn successfully extends the thread's log
\* by the new user message followed by the messages delivered to onMessage,
\* in delivery order, and no other step of any turn changes a log.
C1_LogGainsUserThenDelivered ==
    [][ /\ \A p \in Turns :
              (pc[p] # "returned" /\ pc'[p] = "returned") =>
                  log'[threadId[p]] =
                      log[threadId[p]] \o <<newMessage[p][1]>> \o delivered[p]
        /\ \A t \in ThreadIds :
              log'[t] # log[t] =>
                  \E p \in Turns : /\ pc[p] # "returned"
                                   /\ pc'[p] = "returned"
                                   /\ threadId[p] = t ]_vars

C1_Witness ==
    \E p \in Turns :
        /\ pc[p] = "returned"
        /\ Len(delivered[p]) = MaxDeliver
        /\ Len(previousMessages[p]) > 0
        /\ log[threadId[p]] =
              previousMessages[p] \o <<newMessage[p][1]>> \o delivered[p]

\* C2: with fewer than 9 prior messages the engine is given exactly the
\* system message with the agent's prompt, all prior messages in stored
\* order, and the new user message.
C2_ShortHistoryContextIsComplete ==
    \A p \in Turns :
        (Inferred(p) /\ Len(previousMessages[p]) < 9) =>
            inferArgs[p][1].messages =
                <<[role |-> "system", content |-> agent[p][1].prompt]>>
                    \o previousMessages[p] \o <<newMessage[p][1]>>

C2_Witness ==
    \E p \in Turns :
        /\ Inferred(p)
        /\ Len(previousMessages[p]) = 8
        /\ Len(inferArgs[p][1].messages) = 10

\* C3: for every history length the engine is given at most 10 messages,
\* the last one is the new user message, and the prior messages kept are
\* the most recent ones in their stored order.
C3_ContextBoundedEndsWithNew ==
    \A p \in Turns :
        Inferred(p) =>
            LET c == inferArgs[p][1].messages
                sys == [role |-> "system", content |-> agent[p][1].prompt]
                prev == previousMessages[p]
                new == newMessage[p][1]
            IN  /\ Len(c) <= 10
                /\ Len(c) >= 1
                /\ c[Len(c)] = new
                /\ \E k \in 0..Len(prev) :
                      LET kept == SubSeq(prev, Len(prev) - k + 1, Len(prev))
                      IN  c = kept \o <<new>> \/ c = <<sys>> \o kept \o <<new>>

C3_Witness ==
    \E p \in Turns :
        /\ Inferred(p)
        /\ Len(previousMessages[p]) > 9
        /\ Len(inferArgs[p][1].messages) = 10
        /\ inferArgs[p][1].messages[1] = previousMessages[p][Len(previousMessages[p]) - 8]

\* The system message of turn p's agent is among the engine's messages.
HasSystemMessage(p) ==
    [role |-> "system", content |-> agent[p][1].prompt]
        \in Range(inferArgs[p][1].messages)

\* The prior messages the first truncation keeps.
KeptPrior(p) ==
    IF Len(previousMessages[p]) < 9 THEN Len(previousMessages[p]) ELSE 9

\* C4: the engine's messages contain the system message only if the kept
\* prior messages plus the new user message are at most 9 entries, and
\* a prior history of more than 9 entries always loses the system message.
C4_SystemMessageOnlyIfRoom ==
    \A p \in Turns :
        Inferred(p) =>
            /\ HasSystemMessage(p) => KeptPrior(p) + 1 <= 9
            /\ Len(previousMessages[p]) > 9 => ~HasSystemMessage(p)

C4_Witness ==
    \E p \in Turns :
        /\ Inferred(p)
        /\ Len(previousMessages[p]) > 9
        /\ ~HasSystemMessage(p)

\* The calls a turn makes, in order, when nothing fails.
CallChain(p) ==
    <<"getThreadDetailsById",
      IF Truthy(agentName[p]) THEN "getAgentByName" ELSE "getAgentById",
      "getMessagesByThreadId", "getAgentTools", "universalInfer",
      "addMessagesToThread">>

\* C5: a failing collaborator call ends the turn with that very error
\* reaching the caller; the failed call is the last call of the turn and no
\* call is made twice; a failed inference call means no save and no trace
\* of the turn in any log, whatever onMessage had received.
C5_FailureAbortsTurn ==
    \A p \in Turns :
        /\ failed[p] # None =>
              /\ pc[p] = "thrown"
              /\ error[p] = Some(Rejection(failed[p][1]))
              /\ returned[p] = None
              /\ calls[p][Len(calls[p])] = failed[p][1]
        /\ pc[p] = "thrown" => error[p] = raised[p] /\ raised[p] # None
        /\ IsPrefix(calls[p], CallChain(p))
        /\ failed[p] = Some("universalInfer") =>
              "addMessagesToThread" \notin Range(calls[p]) /\ NoTraceInLog(p)
        /\ "addMessagesToThread" \in Range(calls[p]) => result[p] # None

C5_Witness ==
    \E p \in Turns :
        /\ pc[p] = "thrown"
        /\ failed[p] = Some("universalInfer")
        /\ Len(delivered[p]) = MaxDeliver
        /\ Len(newMessages[p]) = MaxDeliver + 1

\* The save of turn p failed after its inference call had succeeded.
SaveFailed(p) == failed[p] = Some("addMessagesToThread") /\ result[p] # None

\* C6 as stated: when the save fails after a successful inference call, the
\* caller receives the engine's output message and the log lacks the turn's
\* messages.
C6_CallerReceivesOutputOnSaveFailure ==
    \A p \in Turns :
        SaveFailed(p) => returned[p] = result[p] /\ NoTraceInLog(p)

\* C6, amended: when the save fails after a successful inference call, the
\* caller receives the save's error and no value (the engine's output
\* message is lost), and the log lacks the turn's messages.
C6_CallerReceivesErrorOnSaveFailure ==
    \A p \in Turns :
        SaveFailed(p) =>
            /\ pc[p] = "thrown"
            /\ error[p] = Some(Rejection("addMessagesToThread"))
            /\ returned[p] = None
            /\ NoTraceInLog(p)

C6_Witness ==
    \E p \in Turns :
        /\ SaveFailed(p)
        /\ pc[p] = "thrown"
        /\ Len(delivered[p]) > 0
        /\ returned[p] = None

\* getThreadDetailsById has answered turn p.
ThreadFetched(p) ==
    /\ pc[p] \notin {"idle", "getThreadDetailsById"}
    /\ failed[p] # Some("getThreadDetailsById")

\* C7: a turn whose thread fetch returns nothing fails with the thread
\* not-found error, and the thread fetch is the only call it ever makes.
C7_MissingThreadFailsWithoutCalls ==
    \A p \in Turns :
        (ThreadFetched(p) /\ threadDetails[p] = None) =>
            /\ pc[p] = "thrown"
            /\ error[p] = Some(<<"Thread not found">>)
            /\ calls[p] = <<"getThreadDetailsById">>
            /\ NoTraceInLog(p)

C7_Witness ==
    \E p \in Turns :
        /\ ThreadFetched(p)
        /\ threadDetails[p] = None
        /\ threadId[p] \notin ThreadIds
        /\ pc[p] = "thrown"

\* The names of the tools agent a declares, then of its knowledge tools.
ExpectedToolNames(a) ==
    LET rows == AgentToolRows(a.id)
        kbs == IF a.knowledgeBases = None THEN <<>> ELSE a.knowledgeBases[1]
    IN  [i \in 1..Len(rows) |-> rows[i].name]
            \o [i \in 1..Len(kbs) |-> <<"search-knowledge-base-", kbs[i].name>>]

\* The names of the tools given to the engine (none given: no names).
GivenToolNames(p) ==
    LET given == inferArgs[p][1].tools
    IN  IF given = None THEN <<>>
        ELSE [i \in 1..Len(given[1]) |-> given[1][i].name]

\* Turn p names an existing agent and its thread has a default agent.
NameAndDefault(p) ==
    /\ ThreadFetched(p)
    /\ threadDetails[p] # None
    /\ Truthy(agentName[p])
    /\ Truthy(threadDetails[p][1].default_agent_id)
    /\ \E a \in Agents : a.name = agentName[p]

\* C8: when a name and a default agent are both present, the default agent
\* is never looked up and the agent of that name governs the turn: its
\* prompt, model and tools are those of the inference call.
C8_NamedAgentTakesPrecedence ==
    \A p \in Turns :
        NameAndDefault(p) =>
            /\ "getAgentById" \notin Range(calls[p])
            /\ agent[p] # None => agent[p][1].name = agentName[p]
            /\ Inferred(p) =>
                  LET a == CHOOSE a \in Agents : a.name = agentName[p]
                      m == inferArgs[p][1].messages
                  IN  /\ inferArgs[p][1].model = a.primaryModel
                      /\ GivenToolNames(p) = ExpectedToolNames(a)
                      /\ Len(previousMessages[p]) < 9 =>
                            m[1] = [role |-> "system", content |-> a.prompt]
                      /\ \A i \in 1..Len(m) :
                            m[i].role = "system" => m[i].content = a.prompt

C8_Witness ==
    \E p \in Turns :
        /\ NameAndDefault(p)
        /\ pc[p] = "returned"
        /\ threadDetails[p][1].default_agent_id = "a1"
        /\ agent[p][1].id = "a2"
        /\ inferArgs[p][1].messages[1].content = agent[p][1].prompt
        /\ Len(GivenToolNames(p)) = 2

\* C9: a turn on an existing thread with neither a name nor a default agent
\* fails with the no-agent error; no later call is made, so neither the
\* engine nor the save is reached.
C9_NoAgentIsConfigurationError ==
    \A p \in Turns :
        (/\ ThreadFetched(p)
         /\ threadDetails[p] # None
         /\ ~Truthy(agentName[p])
         /\ ~Truthy(threadDetails[p][1].default_agent_id)) =>
            /\ pc[p] = "thrown"
            /\ error[p] = Some(<<"No agent specified and no default agent set for the thread">>)
            /\ "universalInfer" \notin Range(calls[p])
            /\ "addMessagesToThread" \notin Range(calls[p])
            /\ calls[p] = <<"getThreadDetailsById">>

C9_Witness ==
    \E p \in Turns :
        /\ ThreadFetched(p)
        /\ threadId[p] = "T2"
        /\ agentName[p] = Undefined
        /\ pc[p] = "thrown"

\* getAgentByName has answered turn p that no agent has the name.
NameLookupMissed(p) ==
    /\ "getAgentByName" \in Range(calls[p])
    /\ pc[p] # "getAgentByName"
    /\ failed[p] # Some("getAgentByName")
    /\ ~ \E a \in Agents : a.name = agentName[p]

\* C10: when the lookup of the supplied name finds no agent the turn fails
\* with the agent not-found error, default agent or not: the default agent
\* is not looked up and no later call is made.
C10_UnknownNameDoesNotFallBack ==
    \A p \in Turns :
        NameLookupMissed(p) =>
            /\ pc[p] = "thrown"
            /\ error[p] = Some(<<"Agent \"", agentName[p], "\" not found">>)
            /\ calls[p] = <<"getThreadDetailsById", "getAgentByName">>

C10_Witness ==
    \E p \in Turns :
        /\ NameLookupMissed(p)
        /\ pc[p] = "thrown"
        /\ threadDetails[p][1].default_agent_id = "a1"
        /\ getAgentById(threadDetails[p][1].default_agent_id) # None

\* How often x occurs in the sequence s.
Count(s, x) == Cardinality({ i \in 1..Len(s) : s[i] = x })

\* C11: a turn that has returned made exactly one inference call and exactly
\* one save, the save after the inference call, and a save is only ever
\* called once the inference call has answered with its result.
C11_OneInferenceThenOneSave ==
    \A p \in Turns :
        /\ pc[p] = "returned" =>
              /\ Count(calls[p], "universalInfer") = 1
              /\ Count(calls[p], "addMessagesToThread") = 1
              /\ \E i, j \in 1..Len(calls[p]) :
                    /\ i < j
                    /\ calls[p][i] = "universalInfer"
                    /\ calls[p][j] = "addMessagesToThread"
              /\ returned[p] = result[p]
        /\ Count(calls[p], "addMessagesToThread") > 0 =>
              /\ result[p] # None
              /\ failed[p] # Some("universalInfer")
        /\ Count(calls[p], "universalInfer") <= 1
        /\ Count(calls[p], "addMessagesToThread") <= 1

C11_Witness ==
    \E p \in Turns :
        /\ pc[p] = "returned"
        /\ Len(delivered[p]) > 0
        /\ calls[p][Len(calls[p])] = "addMessagesToThread"
        /\ returned[p] # None

\* C12: every step of every turn, successful or failed, leaves each
\* thread's log a prefix of its next value: stored messages are never
\* reordered, removed or truncated.
C12_LogOnlyGrowsByAppending ==
    [][ \A t \in ThreadIds : IsPrefix(log[t], log'[t]) ]_vars

C12_Witness ==
    \E p, q \in Turns :
        /\ p # q
        /\ pc[p] = "returned"
        /\ pc[q] = "returned"
        /\ threadId[p] = threadId[q]
        /\ Len(previousMessages[p]) > 10
        /\ Len(inferArgs[p][1].messages) = 10
        /\ IsPrefix(previousMessages[p], log[threadId[p]])
        /\ Len(log[threadId[p]]) =
              Len(previousMessages[p]) + Len(newMessages[p])
                + Len(newMessages[q])

\* The knowledge bases attached to agent a (none attached: no entries).
KnowledgeBasesOf(a) ==
    IF a.knowledgeBases = None THEN <<>> ELSE a.knowledgeBases[1]

\* C13: the engine is called without tools when the agent declares no tool
\* and has no knowledge base; otherwise with a non-empty list, the declared
\* tools first and the knowledge tools after them.
C13_NoToolsMeansUndefined ==
    \A p \in Turns :
        Inferred(p) =>
            LET declared == Len(AgentToolRows(agent[p][1].id))
                attached == Len(KnowledgeBasesOf(agent[p][1]))
                given == inferArgs[p][1].tools
            IN  /\ (declared + attached = 0) => given = None
                /\ (declared + attached > 0) =>
                      /\ given # None
                      /\ given[1] # <<>>
                      /\ Len(given[1]) = declared + attached
                      /\ \A i \in 1..Len(given[1]) :
                            given[1][i].kind =
                                IF i <= declared THEN "declared" ELSE "knowledge"

C13_Witness ==
    \E p, q \in Turns :
        /\ Inferred(p)
        /\ Inferred(q)
        /\ inferArgs[p][1].tools = None
        /\ tools[p] = <<>>
        /\ inferArgs[q][1].tools # None
        /\ Len(inferArgs[q][1].tools[1]) = 2

\* getAgentTools has answered turn p and the tool list is built.
ToolsBuilt(p) == "universalInfer" \in Range(calls[p])

\* C14: the tool list of a turn has one tool per declared tool record, in
\* record order, then one tool per attached knowledge base, in order, named
\* search-knowledge-base-<name>; equal names are all kept.
C14_ToolListIsDeclaredThenKnowledge ==
    \A p \in Turns :
        ToolsBuilt(p) =>
            LET rows == AgentToolRows(agent[p][1].id)
                kbs == KnowledgeBasesOf(agent[p][1])
            IN  /\ Len(tools[p]) = Len(rows) + Len(kbs)
                /\ \A i \in 1..Len(rows) :
                      /\ tools[p][i].kind = "declared"
                      /\ tools[p][i].name = rows[i].name
                /\ \A i \in 1..Len(kbs) :
                      /\ tools[p][Len(rows) + i].kind = "knowledge"
                      /\ tools[p][Len(rows) + i].name =
                            <<"search-knowledge-base-", kbs[i].name>>

C14_Witness ==
    \E p \in Turns :
        /\ ToolsBuilt(p)
        /\ Len(tools[p]) = 3
        /\ tools[p][1].kind = "declared"
        /\ tools[p][2].kind = "knowledge"
        /\ tools[p][1].name = tools[p][2].name
        /\ tools[p][2] = tools[p][3]
        /\ inferArgs[p][1].tools = Some(tools[p])

\* The payload carries an object with a string query.
WellFormedQuery(raw) ==
    raw.text = "object" /\ raw.object.query.t = "string"

\* C15: a payload with a string query and no k makes the tool search with
\* k = 2; a payload that is no JSON, or whose query is no string, makes
\* parse throw, and the search collaborator is not called.
C15_DefaultKAndRejectedPayloads ==
    toolPc # "idle" =>
        LET raw == rawParams[1] IN
        /\ (WellFormedQuery(raw) /\ raw.object.k.t = "undefined") =>
              /\ toolPc # "thrown" \/ toolError = Some(<<"rejected", "searchKnowledgeBase">>)
              /\ toolPc # "parsed" =>
                    searchCalls = <<[kbName |-> kb[1].name,
                                     query |-> raw.object.query,
                                     k |-> [t |-> "number", n |-> 2, s |-> ""]]>>
        /\ ~WellFormedQuery(raw) =>
              /\ toolPc = "thrown"
              /\ toolError \in { Some(<<"SyntaxError">>),
                                 Some(<<"ZodError", "query">>),
                                 Some(<<"ZodError", "params">>) }
              /\ params = None
              /\ searchCalls = <<>>
        /\ (raw.form = "string" /\ raw.text = "malformed") =>
              toolError = Some(<<"SyntaxError">>)

C15_Witness ==
    /\ toolPc = "returned"
    /\ rawParams[1].form = "string"
    /\ rawParams[1].object.k.t = "undefined"
    /\ Len(searchCalls) = 1
    /\ searchCalls[1].k.n = 2

C15_WitnessRejected ==
    /\ toolPc = "thrown"
    /\ rawParams[1].text = "object"
    /\ rawParams[1].object.query.t = "number"
    /\ searchCalls = <<>>

\* The keys of a serialized object.
KeysOf(o) == { o[i][1] : i \in 1..Len(o) }

\* C16: the tool's output has one entry per search result, in order; each
\* entry has the result's content, its metadata when the result has one,
\* and no other key: similarity, id and model never appear.
C16_OutputIsContentAndMetadataOnly ==
    toolPc = "returned" =>
        LET results == searchResults[1]
            out == toolOutput[1]
        IN  /\ Len(out) = Len(results)
            /\ \A i \in 1..Len(out) :
                  /\ KeysOf(out[i]) \subseteq {"content", "metadata"}
                  /\ <<"content", results[i].content>> \in Range(out[i])
                  /\ results[i].metadata # None =>
                        <<"metadata", results[i].metadata>> \in Range(out[i])
                  /\ results[i].metadata = None =>
                        "metadata" \notin KeysOf(out[i])
                  /\ Len(out[i]) = Cardinality(KeysOf(out[i]))

C16_Witness ==
    /\ toolPc = "returned"
    /\ Len(searchResults[1]) = MaxResults
    /\ searchResults[1][1].metadata # None
    /\ searchResults[1][2].metadata = None
    /\ Len(toolOutput[1]) = MaxResults
    /\ Len(toolOutput[1][1]) = 2

\* The messages thread t held before any turn ran.
InitialLog(t) ==
    LET initial == { i \in 1..Len(log[t]) : log[t][i].content[1] = "hist" }
    IN  [i \in 1..Cardinality(initial) |-> log[t][i]]

\* The last 10 entries of s.
LastTen(s) == IF Len(s) <= 10 THEN s ELSE SubSeq(s, Len(s) - 9, Len(s))

\* No other turn has been started on the thread of turn p.
OnOwnThread(p) ==
    /\ pc[p] # "idle"
    /\ threadId[p] \in ThreadIds
    /\ \A q \in Turns \ {p} : pc[q] = "idle" \/ threadId[q] # threadId[p]

\* C17: whatever a concurrent turn on another thread does, a turn sees and
\* leaves what it would alone: it reads the thread's initial log, builds its
\* context from it, collects only its own messages, and the thread's log is
\* the initial log until the turn's save and its own block after it.
C17_TurnsOnDifferentThreadsAreIndependent ==
    \A p \in Turns :
        OnOwnThread(p) =>
            LET t == threadId[p]
                own == <<newMessage[p][1]>> \o delivered[p]
            IN  /\ log[t] = IF pc[p] = "returned"
                            THEN InitialLog(t) \o own ELSE InitialLog(t)
                /\ "getAgentTools" \in Range(calls[p]) =>
                      /\ previousMessages[p] = InitialLog(t)
                      /\ newMessages[p] = own
                      /\ contextMessages[p] =
                            LastTen(<<[role |-> "system",
                                       content |-> agent[p][1].prompt]>>
                                    \o InitialLog(t) \o <<newMessage[p][1]>>)
                /\ Inferred(p) =>
                      inferArgs[p][1].messages = contextMessages[p]
                /\ pc[p] = "returned" =>
                      /\ returned[p] = result[p]
                      /\ returned[p] \in { Some(r) : r \in OutputMessages(p) }

C17_Witness ==
    \E p, q \in Turns :
        /\ OnOwnThread(p)
        /\ OnOwnThread(q)
        /\ threadId[p] = "T1"
        /\ threadId[q] = "T2"
        /\ pc[p] = "returned"
        /\ pc[q] = "returned"
        /\ Len(delivered[p]) = MaxDeliver
        /\ Len(delivered[q]) = MaxDeliver
        /\ Len(log["T1"]) > MaxDeliver + 1
        /\ Len(log["T2"]) = MaxDeliver + 1

\* C18: for every history length the engine's messages are the last 10 of
\* the system message, ALL prior messages and the new message: cutting the
\* prior messages to the last 9 first changes nothing.
C18_TwoStageEqualsSingleStage ==
    \A p \in Turns :
        Inferred(p) =>
            inferArgs[p][1].messages =
                LastTen(<<[role |-> "system", content |-> agent[p][1].prompt]>>
                        \o previousMessages[p] \o <<newMessage[p][1]>>)

C18_Witness ==
    \E p \in Turns :
        /\ Inferred(p)
        /\ Len(previousMessages[p]) > 10
        /\ inferArgs[p][1].messages[10] = newMessage[p][1]

\* The messages turn p saves: its user message, then what the engine made.
Block(p) == <<newMessage[p][1]>> \o delivered[p]

\* C19: in the log of its thread the messages of a turn that has returned
\* are one contiguous block, user message first, and no message of the turn
\* lies outside it, whatever a concurrent turn on the same thread appends.
C19_TurnBlocksAreContiguous ==
    \A p \in Turns :
        (pc[p] = "returned" /\ threadId[p] \in ThreadIds) =>
            LET stored == log[threadId[p]]
                n == Len(Block(p))
            IN  \E i \in 0..Len(stored) :
                    /\ i + n <= Len(stored)
                    /\ SubSeq(stored, i + 1, i + n) = Block(p)
                    /\ \A j \in 1..Len(stored) :
                          stored[j].content[2] = p <=> j \in (i + 1)..(i + n)

\* Both turns ran on one thread from the same prior history; q saved after
\* p, and q's context has none of p's messages.
C19_Witness ==
    \E p, q \in Turns :
        /\ p # q
        /\ pc[p] = "returned"
        /\ pc[q] = "returned"
        /\ threadId[p] = threadId[q]
        /\ previousMessages[p] = previousMessages[q]
        /\ Len(delivered[p]) = MaxDeliver
        /\ Len(delivered[q]) = MaxDeliver
        /\ log[threadId[p]] = previousMessages[p] \o Block(p) \o Block(q)
        /\ \A i \in 1..Len(contextMessages[q]) :
              contextMessages[q][i] \notin Range(Block(p))

\* C20: a turn whose agentName is the empty string never looks an agent up
\* by name: it looks up the thread's default agent when the thread has one,
\* and that agent governs the turn, and fails with the no-agent error when
\* the thread has none.
C20_EmptyNameIsNoName ==
    \A p \in Turns :
        (agentName[p] = "" /\ ThreadFetched(p) /\ threadDetails[p] # None) =>
            LET default == threadDetails[p][1].default_agent_id IN
            /\ "getAgentByName" \notin Range(calls[p])
            /\ default \notin {Undefined, ""} =>
                  /\ Len(calls[p]) >= 2
                  /\ calls[p][2] = "getAgentById"
                  /\ agent[p] # None => agent[p][1].id = default
                  /\ Inferred(p) =>
                        /\ agent[p] # None
                        /\ inferArgs[p][1].model = agent[p][1].primaryModel
            /\ default \in {Undefined, ""} =>
                  /\ pc[p] = "thrown"
                  /\ error[p] = Some(<<"No agent specified and no default agent set for the thread">>)

C20_Witness ==
    \E p, q \in Turns :
        /\ agentName[p] = ""
        /\ agentName[q] = ""
        /\ threadId[p] = "T1"
        /\ pc[p] = "returned"
        /\ agent[p][1].id = "a1"
        /\ threadId[q] = "T2"
        /\ pc[q] = "thrown"
        /\ calls[q] = <<"getThreadDetailsById">>

====
